---- MODULE Spec2Model ----
(***************************************************************************)
(* Model of monitor.py, the multi-URL ADM page monitor.                    *)
(*                                                                         *)
(* One run (main) walks the registry URLS in order.  For every URL it      *)
(* fetches the page, extracts a signature, loads the stored record,        *)
(* classifies the target (bootstrap / unchanged / changed), saves and      *)
(* notifies, and after the loop rebuilds state/combined_state.json.        *)
(*                                                                         *)
(* The environment is the web (page content, redirects, fetch failures),   *)
(* the Telegram transport (each POST succeeds or raises), the clock and    *)
(* the content that the state directory holds when the first run starts.   *)
(***************************************************************************)
EXTENDS Integers, Sequences, FiniteSets, TLC

(***************************************************************************)
(* Bounds of the model.                                                    *)
(***************************************************************************)
\* number of runs the scheduler starts on a state directory of any content
\* (the clock ticks once per run)
MaxRuns == 2
\* number of runs the scheduler starts on a fresh installation
MaxFreshRuns == 4
\* number of runs a scheduler starts that does not keep runs apart
MaxOverlapRuns == 2

(***************************************************************************)
(* Program constants.                                                      *)
(***************************************************************************)
URL1 == "https://www.adm.gov.it/portale/-/convocazioni-3"
URL2 == "https://www.adm.gov.it/portale/concorso-pubblico-a-complessivi-415-posti-area-assistenti-di-cui-10-riservati-alla-provincia-autonoma-di-bolzano-presso-l-agenzia-delle-dogane-e-dei-monopoli"

URLS == <<URL1, URL2>>

KEYWORDS == {"graduatoria", "graduatorie", "vincitori", "scorrimento",
             "convocazione", "convocazioni", "esito"}

\* the two processes an external scheduler may use for a run
Procs == {"run_a", "run_b"}

(***************************************************************************)
(* Values.                                                                 *)
(***************************************************************************)
\* Python's None where a hash is expected (dict.get of a missing key)
None == <<>>
\* dict.get("ts") of a record without the key
NoTs == -1
\* dict.get("final_url") of a record without the key
NoUrl == ""

\* hashlib.sha256(...).hexdigest(): a collision-free digest of its input
sha256(x) == <<"sha256", x>>

\* str.lower() on the words a page may show
lower(w) == CASE w = "Esito" -> "esito"
              [] w = "Avviso" -> "avviso"
              [] w = "A" -> "a"
              [] OTHER -> w

\* hrefs are numbered in their lexicographic order; href 0 does not end in
\* .pdf, the others do
IsPdf(h) == h > 0

\* where a fetch may end after a redirect
Redirect == "https://www.adm.gov.it/portale/home"

\* a page as served: the whitespace-normalised visible words, the hrefs of
\* its anchors, and the URL the fetch ended at
InitPage(url) == [text |-> <<"avviso">>, hrefs |-> {}, final_url |-> url]

\* the page after an update: the text shows a keyword, a PDF anchor and
\* another anchor were added, and the page is served behind a redirect
UpdatedPage(url) == [text |-> <<"avviso", "Esito">>, hrefs |-> {0, 1},
                     final_url |-> Redirect]

\* what the web may serve for a URL
Pages(url) == {InitPage(url), UpdatedPage(url)}

Min(S) == CHOOSE x \in S : \A y \in S : x <= y

\* sorted(set(...)) of integers
RECURSIVE sorted(_)
sorted(S) == IF S = {} THEN <<>>
             ELSE LET m == Min(S) IN <<m>> \o sorted(S \ {m})

Range(s) == {s[k] : k \in 1..Len(s)}

\* slugify(url) on the registry's URLs; the second is longer than 120
\* characters and carries the first 10 hex digits of sha256(url)
slugify(url) == CASE url = URL1 -> "www-adm-gov-it-portale---convocazioni-3"
                  [] url = URL2 -> "www-adm-gov-it-portale-concorso-pubblico-a-complessivi-415-posti-area-assistenti-di-cui-10-riservati-alla-prov-fd30fb4d5f"
                  [] OTHER -> "root"

\* state_path_for(url): the record file state/<slug>.json, named by its slug
state_path_for(url) == slugify(url)

Paths == {state_path_for(URLS[k]) : k \in 1..Len(URLS)}

(***************************************************************************)
(* extract_signature                                                       *)
(***************************************************************************)
\* a signature whose combined hash also covers the capture timestamp
extract_signature_HashesTs(html, base_url, time) ==
    LET text      == html.text
        pdfs      == sorted({h \in html.hrefs : IsPdf(h)})
        lowered   == {lower(text[k]) : k \in 1..Len(text)}
        found     == {kw \in KEYWORDS : kw \in lowered}
        text_hash == sha256(text)
        pdfs_hash == sha256(pdfs)
    IN  [text_hash     |-> text_hash,
         pdfs_hash     |-> pdfs_hash,
         combined_hash |-> sha256(<<text_hash, "|", pdfs_hash, "|", time>>),
         pdfs          |-> pdfs,
         keywords      |-> found,
         ts            |-> time,
         final_url     |-> base_url]

extract_signature(html, base_url, time) ==
    LET text      == html.text
        pdfs      == sorted({h \in html.hrefs : IsPdf(h)})
        lowered   == {lower(text[k]) : k \in 1..Len(text)}
        found     == {kw \in KEYWORDS : kw \in lowered}
        text_hash == sha256(text)
        pdfs_hash == sha256(pdfs)
    IN  [text_hash     |-> text_hash,
         pdfs_hash     |-> pdfs_hash,
         combined_hash |-> sha256(<<text_hash, "|", pdfs_hash>>),
         pdfs          |-> pdfs,
         keywords      |-> found,
         ts            |-> time,
         final_url     |-> base_url]

(***************************************************************************)
(* The content of a record file.                                           *)
(*   missing    no such file                                               *)
(*   garbage    bytes that do not decode or do not parse as JSON           *)
(*   empty      a file of length 0 (as left by open(path, "w"))            *)
(*   partial    a prefix of a JSON document                                *)
(*   null       a falsy JSON value that is no object: null, 0, [], ""      *)
(*   emptyobj   the JSON object {}                                         *)
(*   nonobject  a truthy JSON value that is no object: [1], 5, "x"         *)
(*   object     a non-empty JSON object; `body` holds what dict.get gives  *)
(***************************************************************************)
NoBody == [text_hash |-> None, pdfs_hash |-> None, combined_hash |-> None,
           pdfs |-> <<>>, keywords |-> {}, ts |-> NoTs, final_url |-> NoUrl]

Blob(kind) == [kind |-> kind, body |-> NoBody]

\* json.dump(sig, f): the file that a completed save_state leaves
FileOf(sig) == [kind |-> "object", body |-> sig]

\* a JSON object with other keys only, e.g. {"version": 1}
ForeignObject == Blob("object")

\* the value load_state returns for a file that is missing or does not load
PyNone == Blob("None")

\* load_state(path), given the content of the file at path
load_state(f) == IF f.kind \in {"missing", "garbage", "empty", "partial"}
                 THEN PyNone
                 ELSE f

\* Python truth of a loaded value: `not old` is ~Truthy(old)
Truthy(v) == v.kind \in {"nonobject", "object"}

\* whether the loaded value has a .get method
IsDict(v) == v.kind \in {"emptyobj", "object"}

\* one entry of combined_state.json, from the keys of a record
Entry(body) == [ts            |-> body.ts,
                keywords      |-> body.keywords,
                pdfs          |-> body.pdfs,
                text_hash     |-> body.text_hash,
                pdfs_hash     |-> body.pdfs_hash,
                combined_hash |-> body.combined_hash]

\* data.get("final_url") or fn
SummaryKey(path, body) == IF body.final_url # NoUrl THEN body.final_url ELSE path

(***************************************************************************)
(* State.                                                                  *)
(***************************************************************************)
VARIABLES
    files,      \* state/<slug>.json: path -> content of the record file
    combined,   \* state/combined_state.json: key -> entry
    web,        \* what each registry URL serves at the moment
    now,        \* int(time.time())
    pc,         \* per process: where main is
    idx,        \* per process: index in URLS of the target being handled
    sig,        \* per process: the local sig
    old,        \* per process: the local old
    cls,        \* per process: the branch taken for the current target
    exc,        \* per process: the exception that is propagating, if any
    status,     \* per process: the exit status of the run
    log,        \* per process: the calls of this run, in order
    snap,       \* per process: the record files as they were when it started
    baseline,   \* per path: the signature that the bootstrap of a target
                \* without a record file persisted (history)
    lost,       \* per path: the signature stored last after a change message
                \* that was not delivered (history)
    alerts,     \* per URL: the change messages attempted since the page at
                \* the URL changed last (history)
    overlapped, \* whether a run was started while another was running
                \* (history)
    call        \* a function called on its own: its arguments and results

vars == <<files, combined, web, now, pc, idx, sig, old, cls, exc, status,
          log, snap, baseline, lost, alerts, overlapped, call>>

Registry == Range(URLS)

\* what the record file of url may hold when the first run starts
InitialFiles(url) ==
    {Blob("missing"), Blob("garbage"), Blob("null"), Blob("emptyobj"),
     Blob("nonobject"), ForeignObject,
     FileOf(extract_signature(InitPage(url), url, 0))}

NoSig == NoBody

\* main is what runs: no function is called on its own
NoCall == [fn |-> "main", args |-> <<>>, rets |-> <<>>]

\* the snapshot of a process that is not running
NoSnap == [p \in Paths |-> Blob("missing")]

\* main's variables but the state directory, before the first run
InitRest ==
    /\ combined = <<>>
    /\ web = [u \in Registry |-> InitPage(u)]
    /\ now = 0
    /\ pc = [r \in Procs |-> "idle"]
    /\ idx = [r \in Procs |-> 1]
    /\ sig = [r \in Procs |-> NoSig]
    /\ old = [r \in Procs |-> PyNone]
    /\ cls = [r \in Procs |-> "none"]
    /\ exc = [r \in Procs |-> "none"]
    /\ status = [r \in Procs |-> "none"]
    /\ log = [r \in Procs |-> <<>>]
    /\ snap = [r \in Procs |-> NoSnap]
    /\ baseline = [p \in Paths |-> NoSig]
    /\ lost = [p \in Paths |-> NoSig]
    /\ alerts = [u \in Registry |-> 0]
    /\ overlapped = FALSE

\* the state directory holds anything
Init ==
    /\ files \in {f \in [Paths -> UNION {InitialFiles(u) : u \in Registry}] :
                    \A u \in Registry : f[state_path_for(u)] \in InitialFiles(u)}
    /\ InitRest
    /\ call = NoCall

\* a fresh installation: the state directory is empty
InitFresh ==
    /\ files = [p \in Paths |-> Blob("missing")]
    /\ InitRest
    /\ call = NoCall

\* the URL and the record file the process is working on
Url(r) == URLS[idx[r]]
SPath(r) == state_path_for(Url(r))

Event(ev, url, kind, ok) == [ev |-> ev, url |-> url, kind |-> kind, ok |-> ok]

Logged(r, e) == log' = [log EXCEPT ![r] = Append(@, e)]

(***************************************************************************)
(* The environment.                                                        *)
(***************************************************************************)
\* no process exists: every earlier run has exited and was collected
AllIdle == \A q \in Procs : pc[q] = "idle"

\* the site publishes new content (or a new redirect) for one page.  A run
\* reads a page once, in one request, so a change during a run acts like a
\* change before it or after it: changes are taken between runs.
SiteUpdate(u, page) ==
    /\ AllIdle
    /\ page # web[u]
    /\ web' = [web EXCEPT ![u] = page]
    /\ alerts' = [alerts EXCEPT ![u] = 0]
    /\ UNCHANGED <<call, lost, overlapped, files, combined, now, pc, idx, sig,
                   old, cls, exc, status, log, snap, baseline>>

(***************************************************************************)
(* main                                                                    *)
(***************************************************************************)
\* the interpreter starts main(): both credentials were present at import.
\* What the scheduler that starts it notes down (snap, overlapped) is left
\* to the start actions.
Begin(r) ==
    /\ pc[r] = "idle"
    /\ now' = now + 1
    /\ pc' = [pc EXCEPT ![r] = "fetch"]
    /\ idx' = [idx EXCEPT ![r] = 1]
    /\ sig' = [sig EXCEPT ![r] = NoSig]
    /\ old' = [old EXCEPT ![r] = PyNone]
    /\ cls' = [cls EXCEPT ![r] = "none"]
    /\ exc' = [exc EXCEPT ![r] = "none"]
    /\ status' = [status EXCEPT ![r] = "running"]
    /\ log' = [log EXCEPT ![r] = <<>>]
    /\ UNCHANGED <<call, lost, alerts, files, combined, web, baseline>>

\* the processes are interchangeable: with runs kept apart the scheduler
\* is taken to use the same one every time
Primary == "run_a"

\* a run started by a scheduler that keeps runs apart
StartRun(r) ==
    /\ AllIdle /\ r = Primary /\ now < MaxRuns
    /\ Begin(r)
    /\ snap' = [snap EXCEPT ![r] = files]
    /\ UNCHANGED overlapped

\* the same, on a fresh installation
StartFreshRun(r) ==
    /\ AllIdle /\ r = Primary /\ now < MaxFreshRuns
    /\ Begin(r)
    /\ snap' = [snap EXCEPT ![r] = files]
    /\ UNCHANGED overlapped

\* main is between its start and its end
Running(q) == pc[q] \notin {"idle", "exited"}

\* a run started by a scheduler that does not wait for the run before; it
\* notes whether another run is going on, and takes no snapshot
StartOverlapRun(r) ==
    /\ AllIdle => r = Primary
    /\ now < MaxOverlapRuns
    /\ Begin(r)
    /\ overlapped' = (overlapped \/ \E q \in Procs \ {r} : Running(q))
    /\ UNCHANGED snap

\* the scheduler collects the exit status of a finished run
Reap(r) ==
    /\ pc[r] = "exited"
    /\ pc' = [pc EXCEPT ![r] = "idle"]
    /\ idx' = [idx EXCEPT ![r] = 1]
    /\ sig' = [sig EXCEPT ![r] = NoSig]
    /\ old' = [old EXCEPT ![r] = PyNone]
    /\ cls' = [cls EXCEPT ![r] = "none"]
    /\ exc' = [exc EXCEPT ![r] = "none"]
    /\ status' = [status EXCEPT ![r] = "none"]
    /\ log' = [log EXCEPT ![r] = <<>>]
    /\ snap' = [snap EXCEPT ![r] = NoSnap]
    /\ UNCHANGED <<call, lost, alerts, overlapped, files, combined, web, now,
                   baseline>>

\* a fetch-failure branch that also stores an empty record for the target
FetchFail_StoresEmpty(r) ==
    /\ pc[r] = "fetch"
    /\ pc' = [pc EXCEPT ![r] = "warn"]
    /\ cls' = [cls EXCEPT ![r] = "FETCH_FAILED"]
    /\ Logged(r, Event("fetch", Url(r), "page", FALSE))
    /\ files' = [files EXCEPT ![SPath(r)] = FileOf(NoSig)]
    /\ UNCHANGED <<call, lost, alerts, overlapped, combined, web, now, idx,
                   sig, old, exc, status, snap, baseline>>

\* fetch_page raises: the except branch is entered
FetchFail(r) ==
    /\ pc[r] = "fetch"
    /\ pc' = [pc EXCEPT ![r] = "warn"]
    /\ cls' = [cls EXCEPT ![r] = "FETCH_FAILED"]
    /\ Logged(r, Event("fetch", Url(r), "page", FALSE))
    /\ UNCHANGED <<call, lost, alerts, overlapped, files, combined, web, now,
                   idx, sig, old, exc, status, snap, baseline>>

\* the warning is sent inside try/except Exception: pass, then `continue`
Warn(r) ==
    /\ pc[r] = "warn"
    /\ \E ok \in BOOLEAN : Logged(r, Event("notify", Url(r), "warning", ok))
    /\ pc' = [pc EXCEPT ![r] = "next"]
    /\ UNCHANGED <<call, lost, alerts, overlapped, files, combined, web, now,
                   idx, sig, old, cls, exc, status, snap, baseline>>

\* fetch_page returns (html, final_url); extract_signature builds sig
FetchOk(r) ==
    /\ pc[r] = "fetch"
    /\ sig' = [sig EXCEPT ![r] =
                 extract_signature(web[Url(r)], web[Url(r)].final_url, now)]
    /\ pc' = [pc EXCEPT ![r] = "load"]
    /\ Logged(r, Event("fetch", Url(r), "page", TRUE))
    /\ UNCHANGED <<call, lost, alerts, overlapped, files, combined, web, now,
                   idx, old, cls, exc, status, snap, baseline>>

\* the branch that main takes on (old, sig)
Classify(o, s) ==
    IF ~Truthy(o) THEN "BOOTSTRAP"
    ELSE IF ~IsDict(o) THEN "ERROR"
    ELSE IF s.combined_hash = o.body.combined_hash THEN "UNCHANGED"
    ELSE "CHANGED"

\* old = load_state(spath), and the tests that follow it
Load(r, branch, to) ==
    /\ pc[r] = "load"
    /\ Classify(load_state(files[SPath(r)]), sig[r]) = branch
    /\ old' = [old EXCEPT ![r] = load_state(files[SPath(r)])]
    /\ cls' = [cls EXCEPT ![r] = branch]
    /\ pc' = [pc EXCEPT ![r] = to]
    /\ Logged(r, Event("classify", Url(r), branch, TRUE))

\* `if not old:` holds
LoadBootstrap(r) ==
    /\ Load(r, "BOOTSTRAP", "save_open")
    /\ UNCHANGED <<call, lost, alerts, overlapped, files, combined, web, now,
                   idx, sig, exc, status, snap, baseline>>

\* old is truthy but has no .get: AttributeError leaves main
LoadError(r) ==
    /\ Load(r, "ERROR", "exited")
    /\ exc' = [exc EXCEPT ![r] = "AttributeError"]
    /\ status' = [status EXCEPT ![r] = "failure"]
    /\ UNCHANGED <<call, lost, alerts, overlapped, files, combined, web, now,
                   idx, sig, snap, baseline>>

\* an unchanged branch that stores sig to refresh the time of the last check
LoadUnchanged_Refreshes(r) ==
    /\ Load(r, "UNCHANGED", "next")
    /\ files' = [files EXCEPT ![SPath(r)] = FileOf(sig[r])]
    /\ UNCHANGED <<call, lost, alerts, overlapped, combined, web, now, idx,
                   sig, exc, status, snap, baseline>>

\* sig["combined_hash"] == old.get("combined_hash"): `continue`
LoadUnchanged(r) ==
    /\ Load(r, "UNCHANGED", "next")
    /\ UNCHANGED <<call, lost, alerts, overlapped, files, combined, web, now,
                   idx, sig, exc, status, snap, baseline>>

\* a changed branch that stores sig at once and goes on to the next URL
LoadChanged_SavesFirst(r) ==
    /\ Load(r, "CHANGED", "save_open")
    /\ UNCHANGED <<call, lost, alerts, overlapped, files, combined, web, now,
                   idx, sig, exc, status, snap, baseline>>

\* the hashes differ: describe_diff and the message are built
LoadChanged(r) ==
    /\ Load(r, "CHANGED", "chg_notify")
    /\ UNCHANGED <<call, lost, alerts, overlapped, files, combined, web, now,
                   idx, sig, exc, status, snap, baseline>>

\* send_telegram(msg) in try/except, so that a failure skips save_state
ChangedNotify_SkipsSave(r) ==
    /\ pc[r] = "chg_notify"
    /\ alerts' = [alerts EXCEPT ![Url(r)] = @ + 1]
    /\ \E ok \in BOOLEAN :
         /\ Logged(r, Event("notify", Url(r), "change", ok))
         /\ exc' = [exc EXCEPT ![r] = IF ok THEN "none" ELSE "HTTPError"]
         /\ pc' = [pc EXCEPT ![r] = IF ok THEN "save_open" ELSE "exited"]
         /\ status' = [status EXCEPT ![r] = IF ok THEN @ ELSE "failure"]
    /\ UNCHANGED <<call, lost, overlapped, files, combined, web, now, idx,
                   sig, old, cls, snap, baseline>>

\* send_telegram(msg) sent again when the first attempt fails
ChangedNotify_Retries(r) ==
    /\ pc[r] = "chg_notify"
    /\ \E ok \in BOOLEAN :
         /\ log' = [log EXCEPT ![r] =
                      IF ok THEN Append(@, Event("notify", Url(r), "change", TRUE))
                      ELSE @ \o <<Event("notify", Url(r), "change", FALSE),
                                  Event("notify", Url(r), "change", FALSE)>>]
         /\ exc' = [exc EXCEPT ![r] = IF ok THEN "none" ELSE "HTTPError"]
         /\ alerts' = [alerts EXCEPT ![Url(r)] = IF ok THEN @ + 1 ELSE @ + 2]
    /\ pc' = [pc EXCEPT ![r] = "save_open"]
    /\ UNCHANGED <<call, lost, overlapped, files, combined, web, now, idx,
                   sig, old, cls, status, snap, baseline>>

\* try: send_telegram(msg); a failure stays pending while finally runs
ChangedNotify(r) ==
    /\ pc[r] = "chg_notify"
    /\ alerts' = [alerts EXCEPT ![Url(r)] = @ + 1]
    /\ \E ok \in BOOLEAN :
         /\ Logged(r, Event("notify", Url(r), "change", ok))
         /\ exc' = [exc EXCEPT ![r] = IF ok THEN "none" ELSE "HTTPError"]
    /\ pc' = [pc EXCEPT ![r] = "save_open"]
    /\ UNCHANGED <<call, lost, overlapped, files, combined, web, now, idx,
                   sig, old, cls, status, snap, baseline>>

\* save_state: open(path, "w") creates or truncates the file
SaveOpen(r) ==
    /\ pc[r] = "save_open"
    /\ files' = [files EXCEPT ![SPath(r)] = Blob("empty")]
    /\ pc' = [pc EXCEPT ![r] = "save_dump"]
    /\ UNCHANGED <<call, lost, alerts, overlapped, combined, web, now, idx,
                   sig, old, cls, exc, status, log, snap, baseline>>

\* where main goes when save_state has returned
AfterSave(r) ==
    IF cls[r] = "BOOTSTRAP" THEN "boot_notify"
    ELSE IF exc[r] = "none" THEN "next"
    ELSE "exited"

\* a save_state that is handed old in place of sig
SaveDump_StoresOld(r) ==
    /\ pc[r] = "save_dump"
    /\ files' = [files EXCEPT ![SPath(r)] = FileOf(old[r].body)]
    /\ Logged(r, Event("write", Url(r), "record", TRUE))
    /\ pc' = [pc EXCEPT ![r] = AfterSave(r)]
    /\ status' = [status EXCEPT ![r] =
                    IF AfterSave(r) = "exited" THEN "failure" ELSE @]
    /\ baseline' = [baseline EXCEPT ![SPath(r)] =
                      IF /\ cls[r] = "BOOTSTRAP"
                         /\ snap[r][SPath(r)].kind = "missing"
                         /\ @ = NoSig
                      THEN sig[r] ELSE @]
    /\ lost' = [lost EXCEPT ![SPath(r)] =
                  IF cls[r] = "CHANGED" /\ exc[r] # "none" THEN sig[r] ELSE @]
    /\ UNCHANGED <<call, alerts, overlapped, combined, web, now, idx, sig, old,
                   cls, exc, snap>>

\* save_state: json.dump writes the record and the with block closes the
\* file; on the CHANGED path a pending exception then leaves main
SaveDump(r) ==
    /\ pc[r] = "save_dump"
    /\ files' = [files EXCEPT ![SPath(r)] = FileOf(sig[r])]
    /\ Logged(r, Event("write", Url(r), "record", TRUE))
    /\ pc' = [pc EXCEPT ![r] = AfterSave(r)]
    /\ status' = [status EXCEPT ![r] =
                    IF AfterSave(r) = "exited" THEN "failure" ELSE @]
    /\ baseline' = [baseline EXCEPT ![SPath(r)] =
                      IF /\ cls[r] = "BOOTSTRAP"
                         /\ snap[r][SPath(r)].kind = "missing"
                         /\ @ = NoSig
                      THEN sig[r] ELSE @]
    /\ lost' = [lost EXCEPT ![SPath(r)] =
                  IF cls[r] = "CHANGED" /\ exc[r] # "none" THEN sig[r] ELSE @]
    /\ UNCHANGED <<call, alerts, overlapped, combined, web, now, idx, sig, old,
                   cls, exc, snap>>

\* save_state is cut short between open and the end of the write: the
\* process is killed, or the write raises OSError, which leaves main.  The
\* file keeps what had reached it: nothing, or a prefix of the document.
SaveInterrupted(r) ==
    /\ pc[r] = "save_dump"
    /\ \E left \in {"empty", "partial"} :
         files' = [files EXCEPT ![SPath(r)] = Blob(left)]
    /\ exc' = [exc EXCEPT ![r] = "OSError"]
    /\ pc' = [pc EXCEPT ![r] = "exited"]
    /\ status' = [status EXCEPT ![r] = "failure"]
    /\ UNCHANGED <<call, lost, alerts, overlapped, combined, web, now, idx,
                   sig, old, cls, log, snap, baseline>>

\* an activation message whose failure is not caught and leaves main
BootNotify_Raises(r) ==
    /\ pc[r] = "boot_notify"
    /\ \E ok \in BOOLEAN :
         /\ Logged(r, Event("notify", Url(r), "activation", ok))
         /\ pc' = [pc EXCEPT ![r] = IF ok THEN "next" ELSE "exited"]
         /\ exc' = [exc EXCEPT ![r] = IF ok THEN @ ELSE "HTTPError"]
         /\ status' = [status EXCEPT ![r] = IF ok THEN @ ELSE "failure"]
    /\ UNCHANGED <<call, lost, alerts, overlapped, files, combined, web, now,
                   idx, sig, old, cls, snap, baseline>>

\* the activation message; its failure is printed and dropped
BootNotify(r) ==
    /\ pc[r] = "boot_notify"
    /\ \E ok \in BOOLEAN : Logged(r, Event("notify", Url(r), "activation", ok))
    /\ pc' = [pc EXCEPT ![r] = "next"]
    /\ UNCHANGED <<call, lost, alerts, overlapped, files, combined, web, now,
                   idx, sig, old, cls, exc, status, snap, baseline>>

\* the for loop takes the next URL, or ends
NextUrl(r) ==
    /\ pc[r] = "next"
    /\ IF idx[r] < Len(URLS)
       THEN /\ idx' = [idx EXCEPT ![r] = @ + 1]
            /\ pc' = [pc EXCEPT ![r] = "fetch"]
       ELSE /\ idx' = idx
            /\ pc' = [pc EXCEPT ![r] = "summary"]
    /\ cls' = [cls EXCEPT ![r] = "none"]
    /\ sig' = [sig EXCEPT ![r] = NoSig]
    /\ old' = [old EXCEPT ![r] = PyNone]
    /\ UNCHANGED <<call, lost, alerts, overlapped, files, combined, web, now,
                   exc, status, log, snap, baseline>>

\* the record files write_combined_state reads an entry from
Listed == {p \in Paths : IsDict(load_state(files[p]))}

\* write_combined_state; main returns and the process exits with status 0.
\* os.listdir gives no order, so of two records with one key either may stay.
WriteCombined(r) ==
    /\ pc[r] = "summary"
    /\ LET keys == {SummaryKey(p, files[p].body) : p \in Listed}
       IN \E pick \in [keys -> Listed] :
            /\ \A k \in keys : SummaryKey(pick[k], files[pick[k]].body) = k
            /\ combined' = [k \in keys |-> Entry(files[pick[k]].body)]
    /\ Logged(r, Event("write", "combined_state", "summary", TRUE))
    /\ pc' = [pc EXCEPT ![r] = "exited"]
    /\ status' = [status EXCEPT ![r] = "success"]
    /\ UNCHANGED <<call, lost, alerts, overlapped, files, web, now, idx, sig,
                   old, cls, exc, snap, baseline>>

\* the steps of main after its start, but for LoadError
Step(r) ==
    \/ FetchFail(r)
    \/ Warn(r)
    \/ FetchOk(r)
    \/ LoadBootstrap(r)
    \/ LoadUnchanged(r)
    \/ LoadChanged(r)
    \/ ChangedNotify(r)
    \/ SaveOpen(r)
    \/ SaveDump(r)
    \/ BootNotify(r)
    \/ NextUrl(r)
    \/ WriteCombined(r)
    \/ Reap(r)

Environment == \E u \in Registry : \E page \in Pages(u) : SiteUpdate(u, page)

Next ==
    \/ \E r \in Procs : StartRun(r)
    \/ \E r \in Procs : Step(r)
    \/ \E r \in Procs : LoadError(r)
    \/ Environment

\* runs kept apart, on a state directory of any content
Spec == Init /\ [][Next]_vars

NextFresh ==
    \/ \E r \in Procs : StartFreshRun(r)
    \/ \E r \in Procs : Step(r)
    \/ Environment

\* runs kept apart, from a fresh installation.  The record files then hold
\* only what save_state wrote, which leaves LoadError without a case.
SpecFresh == InitFresh /\ [][NextFresh]_vars

NextCrash ==
    \/ Next
    \/ \E r \in Procs : SaveInterrupted(r)

\* as Spec, with writes of a record that may be cut short
SpecCrash == Init /\ [][NextCrash]_vars

NextOverlap ==
    \/ \E r \in Procs : StartOverlapRun(r)
    \/ \E r \in Procs : Step(r)
    \/ Environment

\* an installation in service: every target has the record of its page
InitOverlap ==
    /\ files = [p \in Paths |->
                  LET u == CHOOSE v \in Registry : state_path_for(v) = p
                  IN  FileOf(extract_signature(InitPage(u), u, 0))]
    /\ InitRest
    /\ call = NoCall

\* an installation in service and a scheduler that may start a run during
\* another
SpecOverlap == InitOverlap /\ [][NextOverlap]_vars

(***************************************************************************)
(* slugify, on URLs given character by character.                          *)
(***************************************************************************)
\* the longest URL tail the inputs are built from
MaxUrlLen == 2

\* if len(base) > 120
SlugMax == 120
\* base[:110]
SlugKeep == 110

\* every state variable of main, for the steps that call one function
mainvars == <<files, combined, web, now, pc, idx, sig, old, cls, exc, status,
              log, snap, baseline, lost, alerts, overlapped>>

\* [a-zA-Z0-9] among the characters in use
Alnum == {"a", "A", "x", "h", "t", "p", "s", "r", "o"}

\* s[:n] and s[n:]
Take(s, n) == SubSeq(s, 1, IF n < Len(s) THEN n ELSE Len(s))
Drop(s, n) == SubSeq(s, n + 1, Len(s))

\* the first position of s that holds a character of C, or Len(s) + 1
IndexOf(s, C) == Min({k \in 1..Len(s) : s[k] \in C} \cup {Len(s) + 1})

\* urlparse(url): the scheme up to the first ":", the netloc after "//" up
\* to the first of "/", "?" and "#", the path up to the first of "?" and "#"
urlparse(url) ==
    LET i         == IndexOf(url, {":"})
        hasScheme == /\ 1 < i /\ i <= Len(url)
                     /\ \A k \in 1..(i - 1) : url[k] \in Alnum \cup {"+", "-", "."}
        rest      == IF hasScheme THEN Drop(url, i) ELSE url
        hasNetloc == Len(rest) >= 2 /\ rest[1] = "/" /\ rest[2] = "/"
        after     == IF hasNetloc THEN Drop(rest, 2) ELSE rest
        j         == IF hasNetloc THEN IndexOf(after, {"/", "?", "#"}) ELSE 1
        tail      == Drop(after, j - 1)
    IN  [scheme |-> IF hasScheme THEN Take(url, i - 1) ELSE <<>>,
         netloc |-> Take(after, j - 1),
         path   |-> Take(tail, IndexOf(tail, {"?", "#"}) - 1)]

\* s.strip(c)
strip(s, c) ==
    LET keep == {k \in 1..Len(s) : s[k] # c}
    IN  IF keep = {} THEN <<>>
        ELSE SubSeq(s, Min(keep), CHOOSE k \in keep : \A m \in keep : m <= k)

\* s.replace(a, b), for single characters
replace(s, a, b) == [k \in 1..Len(s) |-> IF s[k] = a THEN b ELSE s[k]]

\* re.sub(r"[^a-zA-Z0-9\-]+", "-", s): every maximal run of other characters
\* becomes one "-"
resub(s) ==
    LET kept(k) == s[k] \in Alnum \cup {"-"}
        out     == [k \in 1..Len(s) |->
                      IF kept(k) THEN s[k]
                      ELSE IF k = 1 \/ kept(k - 1) THEN "-" ELSE ""]
    IN  SelectSeq(out, LAMBDA c : c # "")

\* lines 29-32 of slugify: the slug before its length is looked at
slug_base(url) ==
    LET p    == urlparse(url)
        path == replace(strip(p.path, "/"), "/", "-")
        base == IF path # <<>> THEN p.netloc \o <<"-">> \o path ELSE p.netloc
        low  == strip(resub(base), "-")
    IN  [k \in 1..Len(low) |-> lower(low[k])]

\* slugify(url); the 10 hex digits of the digest are kept as one element
slugify_chars(url) ==
    LET base == slug_base(url)
    IN  IF Len(base) > SlugMax THEN Take(base, SlugKeep) \o <<"-", sha256(url)>>
        ELSE IF base = <<>> THEN <<"r", "o", "o", "t">>
        ELSE base

\* the URLs slugify is called on: https://a and a tail of up to MaxUrlLen
\* characters, alone or with a filler that takes the slug to the limit
UrlTails == UNION {[1..n -> {"a", "/", ".", "?"}] : n \in 0..MaxUrlLen}
Filler == [k \in 1..(SlugMax - 2) |-> "x"]
SlugInputs ==
    {<<"h", "t", "t", "p", "s", ":", "/", "/", "a">> \o t \o f :
        t \in UrlTails, f \in {<<>>, Filler}}

\* two targets, of any two URLs
InitSlug ==
    /\ files = [p \in Paths |-> Blob("missing")]
    /\ InitRest
    /\ \E u1 \in SlugInputs : \E u2 \in SlugInputs :
         call = [fn |-> "state_path_for", args |-> <<u1, u2>>, rets |-> <<>>]

\* state_path_for(url) for the next of the targets
CallStatePathFor ==
    /\ call.fn = "state_path_for"
    /\ Len(call.rets) < Len(call.args)
    /\ call' = [call EXCEPT
                  !.rets = Append(@, slugify_chars(call.args[Len(@) + 1]))]
    /\ UNCHANGED mainvars

NextSlug == CallStatePathFor

SpecSlug == InitSlug /\ [][NextSlug]_vars

(***************************************************************************)
(* describe_diff.  The report is the list of its lines before the join;    *)
(* a line is its fixed text and what is formatted into it.                 *)
(***************************************************************************)
\* the largest href of the pages describe_diff is called on
MaxLinks == 17

\* new_pdfs[:10] and len(new_pdfs) > 10
NewShown == 10
\* removed_pdfs[:5] and len(removed_pdfs) > 5
RemovedShown == 5

Line(text, arg) == [text |-> text, arg |-> arg]

\* sorted() of keywords: KEYWORDS in the order of str
KeywordOrder == <<"convocazione", "convocazioni", "esito", "graduatoria",
                  "graduatorie", "scorrimento", "vincitori">>

sorted_keys(S) == SelectSeq(KeywordOrder, LAMBDA kw : kw \in S)

\* lines 103-107 and 108-112: nothing for no link; else the title, a line
\* for each of the first `shown` links and the count of the others, if any
LinkLines(title, links, shown) ==
    IF links = <<>> THEN <<>>
    ELSE <<Line(title, <<>>)>>
         \o [k \in 1..Len(Take(links, shown)) |-> Line("- ", <<links[k]>>)]
         \o (IF Len(links) > shown
             THEN <<Line("... (+n altri)", <<Len(links) - shown>>)>>
             ELSE <<>>)

\* line 114
KeywordLines(new_keys) ==
    IF new_keys = <<>> THEN <<>>
    ELSE <<Line("Nuove parole chiave: ", new_keys)>>

\* a describe_diff without the line for a change that shows in no list
describe_diff_NoFallback(old_sig, new_sig) ==
    LET new_pdfs     == sorted(Range(new_sig.pdfs) \ Range(old_sig.pdfs))
        removed_pdfs == sorted(Range(old_sig.pdfs) \ Range(new_sig.pdfs))
        new_keys     == sorted_keys(new_sig.keywords \ old_sig.keywords)
    IN  LinkLines("Nuovi PDF:", new_pdfs, NewShown)
        \o LinkLines("PDF rimossi:", removed_pdfs, RemovedShown)
        \o KeywordLines(new_keys)

\* a describe_diff that shows as many removed links as new ones
describe_diff_OneLimit(old_sig, new_sig) ==
    LET new_pdfs     == sorted(Range(new_sig.pdfs) \ Range(old_sig.pdfs))
        removed_pdfs == sorted(Range(old_sig.pdfs) \ Range(new_sig.pdfs))
        new_keys     == sorted_keys(new_sig.keywords \ old_sig.keywords)
        lines        == LinkLines("Nuovi PDF:", new_pdfs, NewShown)
                        \o LinkLines("PDF rimossi:", removed_pdfs, NewShown)
                        \o KeywordLines(new_keys)
    IN  IF lines = <<>> THEN <<Line("Contenuto variato (testo/link).", <<>>)>>
        ELSE lines

\* describe_diff(old, new), where old and new are what dict.get gives
describe_diff(old_sig, new_sig) ==
    LET new_pdfs     == sorted(Range(new_sig.pdfs) \ Range(old_sig.pdfs))
        removed_pdfs == sorted(Range(old_sig.pdfs) \ Range(new_sig.pdfs))
        new_keys     == sorted_keys(new_sig.keywords \ old_sig.keywords)
        lines        == LinkLines("Nuovi PDF:", new_pdfs, NewShown)
                        \o LinkLines("PDF rimossi:", removed_pdfs, RemovedShown)
                        \o KeywordLines(new_keys)
    IN  IF lines = <<>> THEN <<Line("Contenuto variato (testo/link).", <<>>)>>
        ELSE lines

\* the pages the signatures are extracted from: three texts, and as anchors
\* the first hrefs, the last hrefs, or every other href
DiffTexts == {<<"avviso">>, <<"avviso", "Esito">>,
              <<"Avviso", "graduatoria", "esito">>}
DiffHrefs == {0..k : k \in 0..MaxLinks} \cup {k..MaxLinks : k \in 1..MaxLinks}
             \cup {{h \in 1..MaxLinks : h % 2 = 1}}
DiffSigs == {extract_signature([text |-> t, hrefs |-> hs, final_url |-> URL1],
                               URL1, 0) : t \in DiffTexts, hs \in DiffHrefs}

\* main calls describe_diff(old, sig) on a truthy old record (an object of
\* other keys included) and a sig of another combined_hash
InitDiff ==
    /\ files = [p \in Paths |-> Blob("missing")]
    /\ InitRest
    /\ \E o \in DiffSigs \cup {ForeignObject.body} : \E n \in DiffSigs :
         /\ Classify(FileOf(o), n) = "CHANGED"
         /\ call = [fn |-> "describe_diff", args |-> <<o, n>>, rets |-> <<>>]

CallDescribeDiff ==
    /\ call.fn = "describe_diff"
    /\ call.rets = <<>>
    /\ call' = [call EXCEPT !.rets = <<describe_diff(call.args[1], call.args[2])>>]
    /\ UNCHANGED mainvars

NextDiff == CallDescribeDiff

SpecDiff == InitDiff /\ [][NextDiff]_vars

(***************************************************************************)
(* Properties.  What a run did is read from its log.                       *)
(***************************************************************************)
Ix(r) == 1..Len(log[r])

Happened(r, ev, url, kind) ==
    \E k \in Ix(r) :
        log[r][k].ev = ev /\ log[r][k].url = url /\ log[r][k].kind = kind

Times(r, ev, url) ==
    Cardinality({k \in Ix(r) : log[r][k].ev = ev /\ log[r][k].url = url})

FetchFailed(r, url) == \E k \in Ix(r) : log[r][k] = Event("fetch", url, "page", FALSE)

Classified(r, url, branch) == Happened(r, "classify", url, branch)

DeliveryFailed(r) == \E k \in Ix(r) : log[r][k].ev = "notify" /\ ~log[r][k].ok

\* a record that holds a signature
ValidRecord(f) == f.kind = "object" /\ f.body.combined_hash # None

\* the fetch of the current target succeeded and main has taken a branch
Branched(r) == cls[r] \in {"BOOTSTRAP", "UNCHANGED", "CHANGED", "ERROR"}

\* C1: every run that has ended reports success to its invoker, whatever
\* the fetches, the stored records and the deliveries did.
C1_RunReportsSuccess ==
    \A r \in Procs : pc[r] = "exited" => status[r] = "success"

\* C2: a run in which a delivery failed is not aborted by it: when it has
\* ended (for another reason than the AttributeError of a stored record)
\* every URL of the registry was fetched and the summary was rebuilt.
C2_DeliveryFailureIsolated ==
    \A r \in Procs :
        (pc[r] = "exited" /\ DeliveryFailed(r) /\ exc[r] # "AttributeError")
        => /\ \A u \in Registry : Times(r, "fetch", u) = 1
           /\ Happened(r, "write", "combined_state", "summary")

\* C3: once the fetch of a target has failed in a run, the record file of
\* the target holds what it held when the run started, until and after the
\* end of the run and whatever the warning's delivery did.
C3_FetchFailureKeepsRecord ==
    \A r \in Procs : \A u \in Registry :
        FetchFailed(r, u)
        => files[state_path_for(u)] = snap[r][state_path_for(u)]

C3_Witness ==
    \E r \in Procs :
        /\ pc[r] = "exited"
        /\ FetchFailed(r, URL1)
        /\ \E k \in Ix(r) : log[r][k] = Event("notify", URL1, "warning", FALSE)
        /\ ValidRecord(snap[r][state_path_for(URL1)])
        /\ Happened(r, "write", URL2, "record")

\* C4: when the processing of a target classified CHANGED has ended, by
\* `continue` or by the delivery's exception leaving main, the record file
\* of the target holds the new signature.
C4_ChangedIsPersisted ==
    \A r \in Procs :
        (cls[r] = "CHANGED" /\ pc[r] \in {"next", "exited"})
        => files[SPath(r)] = FileOf(sig[r])

C4_Witness ==
    \E r \in Procs :
        /\ cls[r] = "CHANGED"
        /\ pc[r] = "exited"
        /\ exc[r] = "HTTPError"
        /\ ValidRecord(snap[r][SPath(r)])
        /\ files[SPath(r)] = FileOf(sig[r])
        /\ files[SPath(r)] # snap[r][SPath(r)]

\* C5: a write of a record that is cut short leaves a file that reads as
\* the complete old record or as the complete new one.
C5_InterruptedWriteKeepsRecord ==
    \A r \in Procs :
        (exc[r] = "OSError" /\ ValidRecord(snap[r][SPath(r)]))
        => load_state(files[SPath(r)]) \in {snap[r][SPath(r)], FileOf(sig[r])}

\* C6: a target whose record file holds anything but a signature record is
\* handled as bootstrap, and no error of the record leaves its processing.
C6_BadRecordIsBootstrap ==
    \A r \in Procs :
        (Branched(r) /\ ~ValidRecord(snap[r][SPath(r)]))
        => (cls[r] = "BOOTSTRAP" /\ exc[r] # "AttributeError")

\* C7: a target classified UNCHANGED in a run keeps its record file as it
\* was when the run started, and the run neither writes the record nor
\* attempts a notification for the target.
C7_UnchangedTouchesNothing ==
    \A r \in Procs : \A u \in Registry :
        Classified(r, u, "UNCHANGED")
        => /\ files[state_path_for(u)] = snap[r][state_path_for(u)]
           /\ Times(r, "write", u) = 0
           /\ Times(r, "notify", u) = 0

C7_Witness ==
    \E r \in Procs :
        /\ pc[r] = "exited"
        /\ status[r] = "success"
        /\ Classified(r, URL1, "UNCHANGED")
        /\ files[state_path_for(URL1)].body.ts = 1
        /\ now = 2
        /\ Happened(r, "write", URL2, "record")

\* the signatures s and t were extracted from the same text and PDF links
SameContent(s, t) == s.text_hash = t.text_hash /\ s.pdfs_hash = t.pdfs_hash

\* a target without a record file whose fetch succeeds is classified
\* BOOTSTRAP, and its signature S1 is persisted
BootstrapPersists ==
    \A r \in Procs :
        (Branched(r) /\ snap[r][SPath(r)].kind = "missing")
        => /\ cls[r] = "BOOTSTRAP"
           /\ pc[r] \in {"boot_notify", "next"}
              => files[SPath(r)] = FileOf(sig[r]) /\ baseline[SPath(r)] = sig[r]

\* C8 as stated: S1 is persisted at bootstrap, and any later run that
\* fetches the content of S1 classifies the target UNCHANGED and leaves S1.
C8_SameContentLeavesBaseline ==
    /\ BootstrapPersists
    /\ \A r \in Procs :
         LET S1 == baseline[SPath(r)] IN
         (/\ pc[r] = "next" /\ Branched(r)
          /\ S1 # NoSig /\ S1.ts < sig[r].ts
          /\ SameContent(sig[r], S1))
         => (cls[r] = "UNCHANGED" /\ files[SPath(r)] = FileOf(S1))

\* C8, amended: S1 is persisted at bootstrap, and any later run that
\* fetches the content of S1 while the record file still holds S1 (no run
\* in between stored a changed signature) classifies the target UNCHANGED
\* and leaves S1, with its older timestamp.
C8_SameContentLeavesStoredBaseline ==
    /\ BootstrapPersists
    /\ \A r \in Procs :
         LET S1 == baseline[SPath(r)] IN
         (/\ pc[r] = "next" /\ Branched(r)
          /\ S1 # NoSig /\ S1.ts < sig[r].ts
          /\ SameContent(sig[r], S1)
          /\ snap[r][SPath(r)] = FileOf(S1))
         => (cls[r] = "UNCHANGED" /\ files[SPath(r)] = FileOf(S1))

C8_Witness ==
    \E r \in Procs :
        /\ pc[r] = "next"
        /\ cls[r] = "UNCHANGED"
        /\ baseline[SPath(r)] # NoSig
        /\ baseline[SPath(r)].ts < sig[r].ts
        /\ SameContent(sig[r], baseline[SPath(r)])
        /\ files[SPath(r)] = FileOf(baseline[SPath(r)])

\* C9: when a run has ended in which the fetch of a target failed, exactly
\* one notification, a warning, was attempted for that target, every later
\* target was fetched, and a later target classified CHANGED was notified
\* and persisted in a run that reports success.
C9_FetchFailureIsolated ==
    \A r \in Procs : \A i \in 1..Len(URLS) : \A j \in 1..Len(URLS) :
        (pc[r] = "exited" /\ i < j /\ FetchFailed(r, URLS[i]))
        => /\ Times(r, "notify", URLS[i]) = 1
           /\ Happened(r, "notify", URLS[i], "warning")
           /\ Times(r, "fetch", URLS[j]) = 1
           /\ Classified(r, URLS[j], "CHANGED")
              => /\ Happened(r, "notify", URLS[j], "change")
                 /\ Happened(r, "write", URLS[j], "record")
                 /\ status[r] = "success"

\* C10: in a run each target is fetched at most once and gets at most one
\* notification attempt, and a change notification is attempted for a
\* target exactly when the run classified it CHANGED (once main is past
\* the send).
C10_OneFetchOneNotification ==
    \A r \in Procs : \A u \in Registry :
        /\ Times(r, "fetch", u) <= 1
        /\ Times(r, "notify", u) <= 1
        /\ Happened(r, "notify", u, "change") => Classified(r, u, "CHANGED")
        /\ (Classified(r, u, "CHANGED") /\ ~(pc[r] = "chg_notify" /\ Url(r) = u))
           => Happened(r, "notify", u, "change")

C10_Witness ==
    \E r \in Procs :
        /\ pc[r] = "exited"
        /\ status[r] = "success"
        /\ Classified(r, URL1, "CHANGED")
        /\ Times(r, "notify", URL1) = 1
        /\ Classified(r, URL2, "BOOTSTRAP")
        /\ Happened(r, "notify", URL2, "activation")
        /\ ~Happened(r, "notify", URL2, "change")

\* C11: when a run has ended after rebuilding the summary, the summary
\* holds exactly one entry for every target with a readable record, under
\* the key of that record and with the record's hashes, links, keywords and
\* timestamp, and nothing else.
C11_SummaryMatchesRecords ==
    \A r \in Procs :
        (pc[r] = "exited" /\ status[r] = "success")
        => /\ Cardinality(DOMAIN combined) = Cardinality(Listed)
           /\ \A p \in Listed :
                LET k == SummaryKey(p, files[p].body) IN
                k \in DOMAIN combined /\ combined[k] = Entry(files[p].body)

\* both targets have their identifier
BothNamed == call.fn = "state_path_for" /\ Len(call.rets) = 2

\* host and path with every run of non-alphanumeric characters replaced by
\* one "-" (a "-" is such a character, so it joins the run next to it)
NaiveSlug(url) ==
    LET p == urlparse(url)
    IN  resub(replace(p.netloc \o p.path, "-", "/"))

\* C12: the identifier of a URL is the same on every call, and two distinct
\* URLs whose naive slugs collide get different identifiers (so that the
\* record files of two targets are never one file).
C12_CollidingUrlsGetDistinctIds ==
    BothNamed =>
        LET u1 == call.args[1]
            u2 == call.args[2]
        IN  /\ u1 = u2 => call.rets[1] = call.rets[2]
            /\ (u1 # u2 /\ NaiveSlug(u1) = NaiveSlug(u2))
               => call.rets[1] # call.rets[2]

\* describe_diff has returned: its arguments, their differences, the report
Described == call.fn = "describe_diff" /\ call.rets # <<>>
Report == call.rets[1]
Added == Range(call.args[2].pdfs) \ Range(call.args[1].pdfs)
Removed == Range(call.args[1].pdfs) \ Range(call.args[2].pdfs)
NewKeywords == call.args[2].keywords \ call.args[1].keywords

\* where the line of this text is in the report, or 0
LineAt(text) ==
    IF \E k \in 1..Len(Report) : Report[k].text = text
    THEN CHOOSE k \in 1..Len(Report) : Report[k].text = text
    ELSE 0

\* the links shown under the title, in the order shown: the "- " lines that
\* follow it
Shown(title) ==
    LET h    == LineAt(title)
        last == CHOOSE e \in h..Len(Report) :
                    /\ \A k \in (h + 1)..e : Report[k].text = "- "
                    /\ e = Len(Report) \/ Report[e + 1].text # "- "
    IN  IF h = 0 THEN <<>> ELSE [k \in 1..(last - h) |-> Report[h + k].arg[1]]

\* the number that the "... (+n altri)" line after those links gives, or 0
More(title) ==
    LET e == LineAt(title) + Len(Shown(title)) + 1
    IN  IF /\ LineAt(title) # 0 /\ e <= Len(Report)
           /\ Report[e].text = "... (+n altri)"
        THEN Report[e].arg[1] ELSE 0

\* the report gives exactly the links of S under the title: the title is
\* there iff S is not empty, and the links shown and counted make up S
Gives(title, S) ==
    /\ LineAt(title) # 0 <=> S # {}
    /\ Range(Shown(title)) \subseteq S
    /\ Len(Shown(title)) = Cardinality(Range(Shown(title)))
    /\ Len(Shown(title)) + More(title) = Cardinality(S)

\* C13: for signatures of different combined_hash the report gives exactly
\* the added links, the removed links and the new keywords, is never empty,
\* and holds the generic line exactly when all three are empty.
C13_ReportGivesDifferences ==
    Described =>
        /\ Report # <<>>
        /\ Gives("Nuovi PDF:", Added)
        /\ Gives("PDF rimossi:", Removed)
        /\ LineAt("Nuove parole chiave: ") # 0 <=> NewKeywords # {}
        /\ LineAt("Nuove parole chiave: ") # 0
           => Range(Report[LineAt("Nuove parole chiave: ")].arg) = NewKeywords
        /\ LineAt("Contenuto variato (testo/link).") # 0
           <=> (Added = {} /\ Removed = {} /\ NewKeywords = {})

C13_Witness ==
    /\ Described
    /\ call.args[1].combined_hash # call.args[2].combined_hash
    /\ call.args[1].text_hash = call.args[2].text_hash
    /\ Cardinality(Added) = 1
    /\ Cardinality(Removed) = 1
    /\ Len(Report) = 4

\* C14: the report shows the first min(n, 10) of the n added links in
\* sorted order and counts n - 10 others exactly when n > 10, and shows the
\* first min(m, 5) of the m removed links and counts m - 5 others exactly
\* when m > 5.
C14_ListsAreCapped ==
    Described =>
        /\ Shown("Nuovi PDF:") = Take(sorted(Added), NewShown)
        /\ More("Nuovi PDF:") = IF Cardinality(Added) > NewShown
                                THEN Cardinality(Added) - NewShown ELSE 0
        /\ Shown("PDF rimossi:") = Take(sorted(Removed), RemovedShown)
        /\ More("PDF rimossi:") = IF Cardinality(Removed) > RemovedShown
                                  THEN Cardinality(Removed) - RemovedShown
                                  ELSE 0

C14_Witness ==
    /\ Described
    /\ Cardinality(Added) > NewShown
    /\ Cardinality(Removed) > RemovedShown
    /\ Len(Shown("Nuovi PDF:")) = NewShown
    /\ Len(Shown("PDF rimossi:")) = RemovedShown
    /\ More("Nuovi PDF:") > 0
    /\ More("PDF rimossi:") > 0

\* the places in the log of run r of the events of this kind for the URL
At(r, ev, url, kind) ==
    {k \in Ix(r) : log[r][k].ev = ev /\ log[r][k].url = url /\ log[r][k].kind = kind}

\* every event of the first set is there before every event of the second
Before(S, T) == \A i \in S : \A j \in T : i < j

\* some event of the first set is there before every event of the second
Preceded(S, T) == \A j \in T : \E i \in S : i < j

\* the fetch (with the extraction) of a target is before its
\* classification, which is before its record write and its notification
FetchClassifyFirst(r, u) ==
    LET branch == UNION {At(r, "classify", u, b) :
                           b \in {"BOOTSTRAP", "UNCHANGED", "CHANGED", "ERROR"}}
        acts   == At(r, "write", u, "record") \cup At(r, "notify", u, "activation")
                  \cup At(r, "notify", u, "change")
    IN  /\ Preceded(At(r, "fetch", u, "page"), branch)
        /\ Preceded(branch, acts)

\* C15 as stated: the steps of a target are in the order fetch, extract,
\* load, classify, persist, notify: the activation message and the change
\* message are each attempted after the record write.
C15_PersistBeforeNotify ==
    \A r \in Procs : \A u \in Registry :
        /\ FetchClassifyFirst(r, u)
        /\ Preceded(At(r, "write", u, "record"), At(r, "notify", u, "activation"))
        /\ Preceded(At(r, "write", u, "record"), At(r, "notify", u, "change"))

\* C15, amended: fetch, extract, load and classify come first; on the
\* BOOTSTRAP path the record is written before the activation message is
\* attempted; on the CHANGED path the change message is attempted first and
\* the record is written after the attempt, whatever its outcome.
C15_PersistBeforeAckAfterChange ==
    \A r \in Procs : \A u \in Registry :
        /\ FetchClassifyFirst(r, u)
        /\ Preceded(At(r, "write", u, "record"), At(r, "notify", u, "activation"))
        /\ Before(At(r, "notify", u, "change"), At(r, "write", u, "record"))
        /\ Classified(r, u, "CHANGED")
           => Preceded(At(r, "notify", u, "change"), At(r, "write", u, "record"))

C15_Witness ==
    \E r \in Procs :
        /\ pc[r] = "exited"
        /\ At(r, "classify", URL1, "CHANGED") # {}
        /\ At(r, "classify", URL2, "BOOTSTRAP") # {}
        /\ Before(At(r, "notify", URL1, "change"), At(r, "write", URL1, "record"))
        /\ Before(At(r, "write", URL2, "record"), At(r, "notify", URL2, "activation"))
        /\ At(r, "write", URL1, "record") # {}
        /\ At(r, "notify", URL1, "change") # {}
        /\ At(r, "write", URL2, "record") # {}
        /\ At(r, "notify", URL2, "activation") # {}

\* C16: a target classified BOOTSTRAP gets no change notification and at
\* most one activation message; when its processing has ended the record
\* holds the new signature, written once, one activation message was
\* attempted, and whatever its outcome no exception is pending and the run
\* goes on: a run that has ended has fetched the target that follows.
C16_BootstrapPersistsAndAcknowledges ==
    \A r \in Procs :
        /\ \A u \in Registry :
             Classified(r, u, "BOOTSTRAP")
             => /\ At(r, "notify", u, "change") = {}
                /\ Cardinality(At(r, "notify", u, "activation")) <= 1
                /\ Cardinality(At(r, "write", u, "record")) <= 1
        /\ (cls[r] = "BOOTSTRAP" /\ pc[r] = "next")
           => /\ files[SPath(r)] = FileOf(sig[r])
              /\ Cardinality(At(r, "write", Url(r), "record")) = 1
              /\ Cardinality(At(r, "notify", Url(r), "activation")) = 1
              /\ exc[r] = "none"
              /\ status[r] = "running"
        /\ \A i \in 1..(Len(URLS) - 1) :
             (pc[r] = "exited" /\ Classified(r, URLS[i], "BOOTSTRAP"))
             => /\ At(r, "notify", URLS[i], "activation") # {}
                /\ At(r, "fetch", URLS[i + 1], "page") # {}

C16_Witness ==
    \E r \in Procs :
        /\ pc[r] = "exited"
        /\ status[r] = "success"
        /\ Classified(r, URL1, "BOOTSTRAP")
        /\ \E k \in Ix(r) : log[r][k] = Event("notify", URL1, "activation", FALSE)
        /\ ValidRecord(files[state_path_for(URL1)])
        /\ files[state_path_for(URL1)].body.ts = now
        /\ At(r, "fetch", URL2, "page") # {}

\* a change message was not delivered: main has ended by its exception
\* with the new signature stored
LostAlertIsPersisted ==
    \A r \in Procs :
        (cls[r] = "CHANGED" /\ exc[r] = "HTTPError" /\ pc[r] = "exited")
        => /\ files[SPath(r)] = FileOf(sig[r])
           /\ lost[SPath(r)] = sig[r]

\* C17 as stated: the signature of a change whose message was not
\* delivered is stored, and every later run that fetches the same content
\* classifies the target UNCHANGED and attempts no change message.
C17_LostAlertNeverRepeated ==
    /\ LostAlertIsPersisted
    /\ \A r \in Procs :
         LET L == lost[SPath(r)] IN
         (/\ Branched(r)
          /\ L # NoSig /\ L.ts < sig[r].ts
          /\ SameContent(sig[r], L))
         => /\ cls[r] = "UNCHANGED"
            /\ At(r, "notify", Url(r), "change") = {}

\* C17, amended: the signature of a change whose message was not delivered
\* is stored, and every later run that fetches the same content while the
\* record still holds that signature classifies the target UNCHANGED,
\* attempts no change message and leaves the record.
C17_LostAlertStaysLost ==
    /\ LostAlertIsPersisted
    /\ \A r \in Procs :
         LET L == lost[SPath(r)] IN
         (/\ Branched(r)
          /\ L # NoSig /\ L.ts < sig[r].ts
          /\ SameContent(sig[r], L)
          /\ snap[r][SPath(r)] = FileOf(L))
         => /\ cls[r] = "UNCHANGED"
            /\ At(r, "notify", Url(r), "change") = {}
            /\ files[SPath(r)] = FileOf(L)

C17_Witness ==
    \E r \in Procs :
        /\ pc[r] = "next"
        /\ cls[r] = "UNCHANGED"
        /\ lost[SPath(r)] # NoSig
        /\ lost[SPath(r)].ts < sig[r].ts
        /\ SameContent(sig[r], lost[SPath(r)])
        /\ files[SPath(r)] = FileOf(lost[SPath(r)])
        /\ At(r, "notify", Url(r), "change") = {}

\* C18: with runs kept apart, when the processing of a target whose fetch
\* succeeded has ended on the bootstrap, the unchanged or the changed path
\* (by `continue` or by the delivery's exception), the record file of the
\* target holds the combined_hash of the signature extracted from the page
\* just fetched.
C18_RecordHoldsFetchedHash ==
    \A r \in Procs :
        (cls[r] \in {"BOOTSTRAP", "UNCHANGED", "CHANGED"}
            /\ pc[r] \in {"next", "exited"})
        => /\ ValidRecord(files[SPath(r)])
           /\ files[SPath(r)].body.combined_hash = sig[r].combined_hash
           /\ sig[r].combined_hash
                = extract_signature(web[Url(r)], web[Url(r)].final_url,
                                    now).combined_hash

C18_Witness ==
    \E r \in Procs :
        /\ cls[r] = "CHANGED"
        /\ pc[r] = "next"
        /\ snap[r][SPath(r)] = ForeignObject
        /\ files[SPath(r)].body.combined_hash = sig[r].combined_hash
        /\ sig[r].combined_hash # None

\* C19, without overlap: as long as no run was started during another, at
\* most one change message was attempted for a URL since its page changed
\* last.
C19_OneAlertPerChangeWhenApart ==
    ~overlapped => \A u \in Registry : alerts[u] <= 1

\* C19, with overlap: two runs have read the same old record of a target
\* before either wrote it, both have classified it CHANGED and both have
\* attempted a change message for the same content.
C19_Witness ==
    \E r \in Procs : \E q \in Procs \ {r} :
        /\ overlapped
        /\ Url(r) = Url(q)
        /\ cls[r] = "CHANGED" /\ cls[q] = "CHANGED"
        /\ ValidRecord(old[r]) /\ old[r] = old[q]
        /\ SameContent(sig[r], sig[q])
        /\ At(r, "notify", Url(r), "change") # {}
        /\ At(q, "notify", Url(q), "change") # {}
        /\ alerts[Url(r)] = 2

====
